---- MODULE Spec2Model ----
(***************************************************************************)
(* jp-prev-bizday: the command-line program of src/main.go.  It parses a   *)
(* base date, walks backward one calendar day at a time (at most maxDays   *)
(* iterations), rejects Saturdays and Sundays locally, asks the holiday    *)
(* API about every other day, and prints the first day that is neither.    *)
(*                                                                         *)
(* A date is a record [year, month, day]; the calendar arithmetic of Go's  *)
(* time package (Date, AddDate, Weekday, the validation of Parse) is       *)
(* modelled on day numbers counted from 0001-01-01.                        *)
(***************************************************************************)
EXTENDS Integers, Sequences, FiniteSets, TLC

\* Bounds of the model: a -date argument names a day of the first NumMonths
\* months of FirstYear (or no day of the calendar at all).
FirstYear == 2024
NumMonths == 6
ClockDays == 31
\* The starting dates of the runs checked for termination: the first LiveDays
\* days of March of the first year.
LiveDays == 7

\* Variant of maxDays: the loop bound off by one.
maxDaysOffByOne == 30 + 1

\* main.go:102
maxDays == 30

VARIABLES
    pc,          \* position of main: "flags", "base", "find", "loop", "returned", "exit"
    help,        \* -help
    verbose,     \* -verbose
    dateStr,     \* -date, as the fields time.Parse reads from it
    baseDate,    \* main's baseDate
    current,     \* findPreviousBusinessDay's current
    i,           \* findPreviousBusinessDay's loop counter
    prevBizDay,  \* the date findPreviousBusinessDay returned
    err,         \* the error chain it returned, outermost first; <<>> is nil
    examined,    \* the dates handed to isBusinessDay, in order
    queries,     \* the HTTP requests issued, in order, each with its response
    stdout,      \* lines printed to standard output
    stderr,      \* lines printed to standard error
    exitCode     \* process exit status; -1 while running

vars == <<pc, help, verbose, dateStr, baseDate, current, i, prevBizDay, err,
          examined, queries, stdout, stderr, exitCode>>

-----------------------------------------------------------------------------
\* Calendar arithmetic of the time package, as main.go uses it.

NoDate == [year |-> 0, month |-> 0, day |-> 0]

isLeap(year) == year % 4 = 0 /\ (year % 100 # 0 \/ year % 400 = 0)

\* daysBefore[m]: days of a non-leap year before month m+1 starts.
daysBefore == <<0, 31, 59, 90, 120, 151, 181, 212, 243, 273, 304, 334, 365>>

daysIn(month, year) ==
    IF month = 2 /\ isLeap(year) THEN 29
    ELSE daysBefore[month + 1] - daysBefore[month]

\* Days from 0001-01-01 to January 1 of year.
daysSinceEpoch(year) ==
    LET y0 == year - 1
        n400 == y0 \div 400
        y1 == y0 - 400 * n400
        n100 == y1 \div 100
        y2 == y1 - 100 * n100
        n4 == y2 \div 4
        y3 == y2 - 4 * n4
    IN  146097 * n400 + 36524 * n100 + 1461 * n4 + 365 * y3

\* time.Date's day count: month is normalised into 1..12, day may be anything.
DayNumber(year, month, day) ==
    LET m0 == month - 1
        yy == year + (m0 \div 12)
        mm == (m0 % 12) + 1
        leapDay == IF isLeap(yy) /\ mm >= 3 THEN 1 ELSE 0
    IN  daysSinceEpoch(yy) + daysBefore[mm] + leapDay + (day - 1)

\* Time.Date(): the calendar date of a day number.
CivilFromDays(days) ==
    LET n400 == days \div 146097
        d1 == days - 146097 * n400
        q100 == d1 \div 36524
        n100 == q100 - (q100 \div 4)
        d2 == d1 - 36524 * n100
        n4 == d2 \div 1461
        d3 == d2 - 1461 * n4
        q1 == d3 \div 365
        n1 == q1 - (q1 \div 4)
        yday == d3 - 365 * n1
        year == 400 * n400 + 100 * n100 + 4 * n4 + n1 + 1
        leapFeb29 == isLeap(year) /\ yday = 31 + 29 - 1
        dd == IF isLeap(year) /\ yday > 31 + 29 - 1 THEN yday - 1 ELSE yday
        m0 == dd \div 31
        end == daysBefore[m0 + 2]
        month == IF dd >= end THEN m0 + 2 ELSE m0 + 1
        begin == IF dd >= end THEN end ELSE daysBefore[m0 + 1]
    IN  IF leapFeb29
        THEN [year |-> year, month |-> 2, day |-> 29]
        ELSE [year |-> year, month |-> month, day |-> dd - begin + 1]

Days(t) == DayNumber(t.year, t.month, t.day)

\* Time.AddDate: the fields are added and the result normalised by Date.
AddDate(t, years, months, days) ==
    CivilFromDays(DayNumber(t.year + years, t.month + months, t.day + days))

\* Time.Weekday: 0 = Sunday .. 6 = Saturday; 0001-01-01 is a Monday.
Weekday(t) == (Days(t) + 1) % 7

Sunday == 0
Saturday == 6

-----------------------------------------------------------------------------
\* The inputs: the command line, the clock and the holiday API.

\* A -date argument: absent, not of the shape dddd-dd-dd, or three numeric fields.
DateArgs ==
    {[shape |-> "empty", year |-> 0, month |-> 0, day |-> 0],
     [shape |-> "malformed", year |-> 0, month |-> 0, day |-> 0]}
    \cup [shape : {"fields"}, year : {FirstYear},
             month : (0 .. NumMonths) \cup {13}, day : 0 .. 32]

\* The dates the clock may show: the first ClockDays days of the first year.
ClockDates ==
    {CivilFromDays(DayNumber(FirstYear, 1, 1) + k) : k \in 0 .. (ClockDays - 1)}

\* The inputs of the runs checked for termination: every weekday as a starting
\* date, as an argument and as the clock's date, and two invalid arguments.
LiveDates ==
    {CivilFromDays(DayNumber(FirstYear, 3, 1) + k) : k \in 0 .. (LiveDays - 1)}

LiveArgs ==
    {[shape |-> "empty", year |-> 0, month |-> 0, day |-> 0],
     [shape |-> "malformed", year |-> 0, month |-> 0, day |-> 0],
     [shape |-> "fields", year |-> FirstYear, month |-> 2, day |-> 30]}
    \cup {[shape |-> "fields", year |-> t.year, month |-> t.month, day |-> t.day] :
             t \in LiveDates}

\* What one GET of the holiday API can come to: a transport failure or timeout,
\* a status other than 200, a body that is not JSON, or a decoded answer.
OracleResponses ==
    {[kind |-> "neterr", holiday |-> FALSE],
     [kind |-> "status", holiday |-> FALSE],
     [kind |-> "badjson", holiday |-> FALSE],
     [kind |-> "ok", holiday |-> TRUE],
     [kind |-> "ok", holiday |-> FALSE]}

-----------------------------------------------------------------------------
\* The functions of main.go.

\* Variant of ParseDate: the day is only checked against 31, and a day past the
\* end of its month rolls over into the next one.
ParseDateLenient(s) ==
    IF /\ s.shape = "fields"
       /\ s.month >= 1 /\ s.month <= 12
       /\ s.day >= 1 /\ s.day <= 31
    THEN [ok |-> TRUE, t |-> CivilFromDays(DayNumber(s.year, s.month, s.day))]
    ELSE [ok |-> FALSE, t |-> NoDate]

\* time.Parse("2006-01-02", dateStr): ok, and the time parsed.
ParseDate(s) ==
    IF /\ s.shape = "fields"
       /\ s.month >= 1 /\ s.month <= 12
       /\ s.day >= 1 /\ s.day <= daysIn(s.month, s.year)
    THEN [ok |-> TRUE, t |-> CivilFromDays(DayNumber(s.year, s.month, s.day))]
    ELSE [ok |-> FALSE, t |-> NoDate]

\* Variant of isWeekend: Sunday is forgotten.
isWeekendSaturdayOnly(date) == Weekday(date) = Saturday

isWeekend(date) == Weekday(date) = Saturday \/ Weekday(date) = Sunday

\* checkHoliday: the holiday flag and the error, from the response to its GET.
checkHoliday(resp) ==
    IF resp.kind = "neterr" THEN [holiday |-> FALSE, err |-> <<"ApiCallError">>]
    ELSE IF resp.kind = "status" THEN [holiday |-> FALSE, err |-> <<"ApiStatusError">>]
    ELSE IF resp.kind = "badjson" THEN [holiday |-> FALSE, err |-> <<"JsonParseError">>]
    ELSE [holiday |-> resp.holiday, err |-> <<>>]

\* Variant of isBusinessDay: checkHoliday's error is dropped, and the day counts
\* as no business day.
isBusinessDayIgnoringError(date, resp) ==
    IF isWeekend(date)
    THEN [val |-> FALSE, err |-> <<>>, queried |-> FALSE]
    ELSE LET h == checkHoliday(resp)
         IN  [val |-> (h.err = <<>> /\ ~h.holiday), err |-> <<>>, queried |-> TRUE]

\* Variant of isBusinessDay: the API is asked before the weekend is looked at.
isBusinessDayQueryFirst(date, resp) ==
    LET h == checkHoliday(resp)
    IN  IF h.err # <<>>
        THEN [val |-> FALSE, err |-> h.err, queried |-> TRUE]
        ELSE [val |-> (~isWeekend(date) /\ ~h.holiday), err |-> <<>>, queried |-> TRUE]

\* isBusinessDay: the verdict, the error, and whether the API was called.
isBusinessDay(date, resp) ==
    IF isWeekend(date)
    THEN [val |-> FALSE, err |-> <<>>, queried |-> FALSE]
    ELSE LET h == checkHoliday(resp)
         IN  IF h.err # <<>>
             THEN [val |-> FALSE, err |-> h.err, queried |-> TRUE]
             ELSE [val |-> ~h.holiday, err |-> <<>>, queried |-> TRUE]

\* Variant of DayBefore: two days back.
DayBeforeSkipping(t) == AddDate(t, 0, 0, -2)

\* Variant of DayBefore: one month back.
DayBeforeByMonth(t) == AddDate(t, 0, -1, 0)

\* The day findPreviousBusinessDay looks at before (and after) a given one.
DayBefore(t) == AddDate(t, 0, 0, -1)

\* outputSimple and outputVerbose: the lines printed.
outputSimple(date) == <<[label |-> "", date |-> date, weekday |-> -1]>>

outputVerbose(base, businessDay) ==
    <<[label |-> "base", date |-> base, weekday |-> Weekday(base)],
      [label |-> "prev", date |-> businessDay, weekday |-> Weekday(businessDay)]>>

-----------------------------------------------------------------------------
\* The program.

Init ==
    /\ pc = "flags"
    /\ help = FALSE
    /\ verbose = FALSE
    /\ dateStr = [shape |-> "empty", year |-> 0, month |-> 0, day |-> 0]
    /\ baseDate = NoDate
    /\ current = NoDate
    /\ i = 0
    /\ prevBizDay = NoDate
    /\ err = <<>>
    /\ examined = <<>>
    /\ queries = <<>>
    /\ stdout = <<>>
    /\ stderr = <<>>
    /\ exitCode = -1

\* flag.Parse, and the exit after -help; args are the -date arguments tried.
FlagParseFrom(args) ==
    /\ pc = "flags"
    /\ \E h \in BOOLEAN, v \in BOOLEAN, s \in args :
          /\ help' = h
          /\ verbose' = v
          /\ dateStr' = s
          /\ IF h
             THEN /\ pc' = "exit"
                  /\ stdout' = <<"help">>
                  /\ exitCode' = 0
             ELSE /\ pc' = "base"
                  /\ UNCHANGED <<stdout, exitCode>>
    /\ UNCHANGED <<baseDate, current, i, prevBizDay, err, examined, queries, stderr>>

FlagParse == FlagParseFrom(DateArgs)

\* No -date: today's date in Asia/Tokyo; clock are the dates it may be.
BaseTodayFrom(clock) ==
    /\ pc = "base"
    /\ dateStr.shape = "empty"
    /\ \E t \in clock : baseDate' = t
    /\ pc' = "find"
    /\ UNCHANGED <<help, verbose, dateStr, current, i, prevBizDay, err, examined,
                   queries, stdout, stderr, exitCode>>

BaseToday == BaseTodayFrom(ClockDates)

\* No -date and no zone database: LoadLocation's error is dropped and
\* Time.In(nil) panics.
BaseTodayNoZone ==
    /\ pc = "base"
    /\ dateStr.shape = "empty"
    /\ pc' = "exit"
    /\ stderr' = Append(stderr, "panic")
    /\ exitCode' = 2
    /\ UNCHANGED <<help, verbose, dateStr, baseDate, current, i, prevBizDay, err,
                   examined, queries, stdout>>

\* -date given: parsed, or reported as invalid and the process exits with 1.
BaseParse ==
    /\ pc = "base"
    /\ dateStr.shape # "empty"
    /\ LET p == ParseDate(dateStr)
       IN  IF p.ok
           THEN /\ baseDate' = p.t
                /\ pc' = "find"
                /\ UNCHANGED <<stderr, exitCode>>
           ELSE /\ stderr' = Append(stderr, "InvalidDateFormat")
                /\ exitCode' = 1
                /\ pc' = "exit"
                /\ UNCHANGED baseDate
    /\ UNCHANGED <<help, verbose, dateStr, current, i, prevBizDay, err, examined,
                   queries, stdout>>

\* findPreviousBusinessDay, up to its loop.
FindStart ==
    /\ pc = "find"
    /\ current' = DayBefore(baseDate)
    /\ i' = 0
    /\ pc' = "loop"
    /\ UNCHANGED <<help, verbose, dateStr, baseDate, prevBizDay, err, examined,
                   queries, stdout, stderr, exitCode>>

\* One iteration of the loop: isBusinessDay(current), then return or step back.
LoopIteration ==
    /\ pc = "loop"
    /\ i < maxDays
    /\ \E resp \in OracleResponses :
          LET r == isBusinessDay(current, resp)
          IN  /\ examined' = Append(examined, current)
              /\ queries' = IF r.queried
                            THEN Append(queries, [date |-> current, resp |-> resp])
                            ELSE queries
              /\ IF r.err # <<>>
                 THEN /\ err' = <<"BizDayCheckError">> \o r.err
                      /\ prevBizDay' = NoDate
                      /\ pc' = "returned"
                      /\ UNCHANGED <<current, i>>
                 ELSE IF r.val
                 THEN /\ prevBizDay' = current
                      /\ err' = <<>>
                      /\ pc' = "returned"
                      /\ UNCHANGED <<current, i>>
                 ELSE /\ current' = DayBefore(current)
                      /\ i' = i + 1
                      /\ UNCHANGED <<prevBizDay, err, pc>>
    /\ UNCHANGED <<help, verbose, dateStr, baseDate, stdout, stderr, exitCode>>

\* The loop ran out: no business day found.
LoopExhausted ==
    /\ pc = "loop"
    /\ ~(i < maxDays)
    /\ err' = <<"NotFound">>
    /\ prevBizDay' = NoDate
    /\ pc' = "returned"
    /\ UNCHANGED <<help, verbose, dateStr, baseDate, current, i, examined, queries,
                   stdout, stderr, exitCode>>

\* main after the call: the error reported and exit 1, or the result printed.
MainFinish ==
    /\ pc = "returned"
    /\ IF err # <<>>
       THEN /\ stderr' = Append(stderr, err)
            /\ exitCode' = 1
            /\ UNCHANGED stdout
       ELSE /\ stdout' = stdout \o (IF verbose
                                    THEN outputVerbose(baseDate, prevBizDay)
                                    ELSE outputSimple(prevBizDay))
            /\ exitCode' = 0
            /\ UNCHANGED stderr
    /\ pc' = "exit"
    /\ UNCHANGED <<help, verbose, dateStr, baseDate, current, i, prevBizDay, err,
                   examined, queries>>

Next ==
    \/ FlagParse
    \/ BaseToday
    \/ BaseTodayNoZone
    \/ BaseParse
    \/ FindStart
    \/ LoopIteration
    \/ LoopExhausted
    \/ MainFinish

Spec == Init /\ [][Next]_vars

\* The program on the inputs LiveArgs and LiveDates.
LiveFlagParse == FlagParseFrom(LiveArgs)

LiveBaseToday == BaseTodayFrom(LiveDates)

LiveNext ==
    \/ LiveFlagParse
    \/ LiveBaseToday
    \/ BaseTodayNoZone
    \/ BaseParse
    \/ FindStart
    \/ LoopIteration
    \/ LoopExhausted
    \/ MainFinish

\* Every step the program can take is eventually taken: the process is
\* scheduled, and each GET returns an answer or an error within its timeout.
LiveSpec == Init /\ [][LiveNext]_vars /\ WF_vars(LiveNext)

-----------------------------------------------------------------------------
\* Vocabulary of the properties.

\* The scan has ended (findPreviousBusinessDay has returned).
ScanDone == pc \in {"returned", "exit"} /\ baseDate # NoDate

\* The scan returned a date.
Found == prevBizDay # NoDate

\* The scan ended with the error of an API call.
OracleFailed == Len(err) = 2 /\ err[1] = "BizDayCheckError"

NotFound == err = <<"NotFound">>

\* How many days the returned date lies before the starting date.
Offset == Days(baseDate) - Days(prevBizDay)

\* The calendar date k days before the starting date.
DaysBack(k) == CivilFromDays(Days(baseDate) - k)

SatOrSun(t) == Weekday(t) \in {Sunday, Saturday}

Answered(q) == q.resp.kind = "ok"
SaidHoliday(q) == Answered(q) /\ q.resp.holiday
SaidNoHoliday(q) == Answered(q) /\ ~q.resp.holiday

\* The API was asked about t and reported a holiday / no holiday.
ReportedHoliday(t) == \E k \in 1 .. Len(queries) : queries[k].date = t /\ SaidHoliday(queries[k])
ReportedNoHoliday(t) == \E k \in 1 .. Len(queries) : queries[k].date = t /\ SaidNoHoliday(queries[k])

\* The length of a month by the calendar rule, and a -date argument naming a
\* day of the calendar.
MonthLength(y, m) ==
    CASE m \in {4, 6, 9, 11} -> 30
      [] m = 2 -> IF (y % 4 = 0 /\ y % 100 # 0) \/ y % 400 = 0 THEN 29 ELSE 28
      [] OTHER -> 31

IsCalendarDate(s) ==
    /\ s.shape = "fields"
    /\ s.month \in 1 .. 12
    /\ s.day \in 1 .. MonthLength(s.year, s.month)

-----------------------------------------------------------------------------
\* C1: a returned date is a business day strictly before the starting date: it
\* is no Saturday or Sunday, the API answered "no holiday" for it, and it lies
\* 1 to 30 days before the starting date.
C1_ReturnedIsBusinessDayBefore ==
    Found =>
        /\ ~SatOrSun(prevBizDay)
        /\ ReportedNoHoliday(prevBizDay)
        /\ Offset >= 1 /\ Offset <= 30
        /\ prevBizDay = DaysBack(Offset)

\* A weekday start, whose own day is never looked at, and a result further back
\* than the day before.
C1_Witness ==
    /\ Found
    /\ ~SatOrSun(baseDate)
    /\ Offset > 3
    /\ \A k \in 1 .. Len(examined) : examined[k] # baseDate

\* C2: the returned date is the most recent business day: every date strictly
\* between it and the starting date is a Saturday or Sunday or a date the API
\* reported as a holiday.
C2_NoBusinessDaySkipped ==
    Found =>
        \A k \in 1 .. 30 :
            k < Offset => (SatOrSun(DaysBack(k)) \/ ReportedHoliday(DaysBack(k)))

\* A result with a reported holiday and a weekend between it and the start.
C2_Witness ==
    /\ Found
    /\ Offset >= 5
    /\ \E k \in 1 .. 30 : k < Offset /\ ReportedHoliday(DaysBack(k))
    /\ \E k \in 1 .. 30 : k < Offset /\ SatOrSun(DaysBack(k))

\* C3: when the API reports no holiday and never fails, the scan returns the
\* Friday before a Monday (3 days back) or a Sunday (2 days back), and the
\* day before any other starting day.
C3_NoHolidayResult ==
    (ScanDone /\ \A k \in 1 .. Len(queries) : SaidNoHoliday(queries[k])) =>
        /\ Found
        /\ Offset = (CASE Weekday(baseDate) = 1 -> 3
                       [] Weekday(baseDate) = 0 -> 2
                       [] OTHER -> 1)

\* A scan from a Monday that returned the Friday before.
C3_Witness ==
    /\ ScanDone
    /\ \A k \in 1 .. Len(queries) : SaidNoHoliday(queries[k])
    /\ Weekday(baseDate) = 1
    /\ Found
    /\ Weekday(prevBizDay) = 5

\* C4: the scan ends "not found" exactly when no API call failed and each of
\* the 30 days before the starting date is a Saturday or Sunday or a reported
\* holiday; a returned date is never more than 30 days back.
C4_NotFoundIffThirtyNonBusinessDays ==
    ScanDone =>
        /\ NotFound <=>
              /\ \A k \in 1 .. Len(queries) : Answered(queries[k])
              /\ \A k \in 1 .. 30 : SatOrSun(DaysBack(k)) \/ ReportedHoliday(DaysBack(k))
        /\ Found => Offset <= 30

\* A scan that ended "not found" after 30 days, some of them weekend days.
C4_Witness ==
    /\ ScanDone
    /\ NotFound
    /\ Len(examined) = 30
    /\ Len(queries) < 30

\* C5: a failed API call ends the scan at once: it is the last call and its day
\* the last day looked at, no date is returned or printed, and the outcome is
\* the API's error, reported with exit status 1.
C5_OracleFailureStopsScan ==
    \A k \in 1 .. Len(queries) :
        ~Answered(queries[k]) =>
            /\ k = Len(queries)
            /\ examined[Len(examined)] = queries[k].date
            /\ pc \in {"returned", "exit"}
            /\ ~Found
            /\ OracleFailed
            /\ ~NotFound
            /\ stdout = <<>>
            /\ pc = "exit" => (exitCode = 1 /\ stderr = <<err>>)

\* A failure on the third call or later, reported.
C5_Witness ==
    /\ pc = "exit"
    /\ Len(queries) >= 3
    /\ ~Answered(queries[Len(queries)])
    /\ Len(examined) < 30

\* C6 as stated: an invalid -date argument always ends the program with a
\* failure status, without an API call and without a date printed.
C6_InvalidDateAlwaysFails ==
    (pc \notin {"flags", "base"} /\ dateStr.shape # "empty" /\ ~IsCalendarDate(dateStr)) =>
        /\ pc = "exit"
        /\ exitCode = 1
        /\ queries = <<>>
        /\ examined = <<>>
        /\ stdout = <<>>

\* C6: an invalid -date argument ends the program before the scan, without an
\* API call and without a date printed; the exit status is 1 unless -help was
\* given (then the help text is printed and the status is 0).
C6_InvalidDateFailsUnlessHelp ==
    (pc \notin {"flags", "base"} /\ dateStr.shape # "empty" /\ ~IsCalendarDate(dateStr)) =>
        /\ pc = "exit"
        /\ queries = <<>>
        /\ examined = <<>>
        /\ baseDate = NoDate
        /\ IF help
           THEN exitCode = 0 /\ stdout = <<"help">> /\ stderr = <<>>
           ELSE exitCode = 1 /\ stdout = <<>> /\ stderr = <<"InvalidDateFormat">>

\* February 30 given without -help, and rejected.
C6_Witness ==
    /\ pc = "exit"
    /\ ~help
    /\ dateStr.shape = "fields" /\ dateStr.month = 2 /\ dateStr.day = 30
    /\ exitCode = 1

\* No request in the log is for a Saturday or Sunday.
C7_NoWeekendInLog ==
    \A k \in 1 .. Len(queries) : ~SatOrSun(queries[k].date)

\* C7: the API is never asked about a Saturday or Sunday: an iteration on a
\* weekend day issues no request and moves the scan to the day before, whatever
\* the API would have answered.
C7_NoQueryOnWeekend ==
    /\ []C7_NoWeekendInLog
    /\ [][(pc = "loop" /\ i < 30 /\ SatOrSun(current)) =>
            /\ queries' = queries
            /\ examined' = Append(examined, current)
            /\ pc' = "loop"
            /\ i' = i + 1
            /\ Days(current') = Days(current) - 1
            /\ UNCHANGED <<prevBizDay, err, stdout, stderr, exitCode>>]_vars

\* A scan that passed over a Saturday and a Sunday and asked the API before
\* and after them.
C7_Witness ==
    /\ Len(queries) >= 2
    /\ \E a \in 1 .. Len(examined) : Weekday(examined[a]) = 6
    /\ \E a \in 1 .. Len(examined) : Weekday(examined[a]) = 0
    /\ ~SatOrSun(examined[1])
    /\ ~SatOrSun(examined[Len(examined)])

\* C8: the days are looked at in descending consecutive order from the day
\* before the starting date, each only after the one before it was settled as
\* a weekend day or a reported holiday, and none is looked at or asked about
\* twice.
C8_ConsecutiveDescendingOnce ==
    /\ \A k \in 1 .. Len(examined) : examined[k] = DaysBack(k)
    /\ \A k \in 1 .. Len(examined) :
          k < Len(examined) => (SatOrSun(examined[k]) \/ ReportedHoliday(examined[k]))
    /\ \A k \in 1 .. Len(examined) :
          k < Len(examined) => Days(examined[k + 1]) = Days(examined[k]) - 1
    /\ \A k \in 1 .. Len(queries) :
          k < Len(queries) => Days(queries[k + 1].date) < Days(queries[k].date)

\* A scan that crossed a month boundary over holidays and a weekend.
C8_Witness ==
    /\ Len(examined) >= 10
    /\ Len(queries) >= 6
    /\ examined[1].month # examined[Len(examined)].month

\* C9: the scan looks at no more than 30 days, ends in exactly one of a
\* returned date, an API error and "not found", and does end.
C9_Outcome ==
    /\ Len(examined) <= 30
    /\ Len(queries) <= Len(examined)
    /\ ScanDone =>
          \/ Found /\ err = <<>>
          \/ ~Found /\ OracleFailed /\ ~NotFound
          \/ ~Found /\ NotFound /\ ~OracleFailed

C9_TerminatesInOneOutcome ==
    /\ []C9_Outcome
    /\ (pc = "find") ~> ScanDone
    /\ ScanDone ~> (pc = "exit")

\* A scan that used all 30 iterations and returned the last day.
C9_Witness ==
    /\ ScanDone
    /\ Found
    /\ Len(examined) = 30

\* C10: one run asks the API at most 22 times, once for each day looked at
\* that is no Saturday or Sunday.
C10_QueryCount ==
    /\ Len(queries) <= 22
    /\ Len(queries) = Cardinality({k \in 1 .. Len(examined) : ~SatOrSun(examined[k])})

\* A run of 22 API calls.
C10_Witness ==
    /\ Len(queries) = 22
    /\ pc = "exit"
====
